---- MODULE Spec2Model ----
(***************************************************************************)
(* HMAX-SECURE: credential sealing, key derivation, record encoding,       *)
(* verification, migration and audit, modelled from the JavaScript source. *)
(*                                                                         *)
(* Strings are sequences of character codes, byte buffers are sequences of *)
(* 0..255.  The keyed hash and the key-derivation primitives of            *)
(* node:crypto are modelled as collision-free functions of their inputs.   *)
(***************************************************************************)
EXTENDS Integers, Sequences, FiniteSets, TLC

(***************************************************************************)
(* JavaScript values                                                       *)
(***************************************************************************)

\* the number NaN (result of a failed parseInt)
NaN == -999999999
\* the value undefined (a property that is absent)
Undef == -888888888
\* the value null
Null == -777777777

IsNum(x) == x # NaN /\ x # Undef /\ x # Null

\* undefined and null have no toString method
IsNullish(x) == x = Undef \/ x = Null

\* a < b and a > b on JS numbers: false as soon as an operand is NaN/undefined
Lt(a, b) == IsNum(a) /\ IsNum(b) /\ a < b
Gt(a, b) == IsNum(a) /\ IsNum(b) /\ a > b

(***************************************************************************)
(* Character codes and string literals                                     *)
(***************************************************************************)
DOLLAR == 36
PLUS == 43
MINUS == 45
SLASH == 47
EQUALS == 61
UNDERSCORE == 95

STR_hmax == <<104, 109, 97, 120>>
STR_argon2id == <<97, 114, 103, 111, 110, 50, 105, 100>>
STR_pbkdf2 == <<112, 98, 107, 100, 102, 50>>
STR_hmac_sha512 == <<104, 109, 97, 99, 45, 115, 104, 97, 53, 49, 50>>
\* an algorithm name the library does not know
STR_md5 == <<109, 100, 53>>

IsDigit(c) == c >= 48 /\ c <= 57
IsSpace(c) == c = 32 \/ (c >= 9 /\ c <= 13)

\* Number.prototype.toString() of a non-negative integer
RECURSIVE DigitsOf(_)
DigitsOf(n) == IF n < 10 THEN <<48 + n>> ELSE Append(DigitsOf(n \div 10), 48 + (n % 10))

\* Number.prototype.toString() of an integer or of NaN ('NaN')
NumToString(n) ==
  IF n = NaN THEN <<78, 97, 78>>
  ELSE IF n < 0 THEN <<MINUS>> \o DigitsOf(0 - n) ELSE DigitsOf(n)

RECURSIVE SkipSpaces(_)
SkipSpaces(s) == IF Len(s) > 0 /\ IsSpace(Head(s)) THEN SkipSpaces(Tail(s)) ELSE s

RECURSIVE DigitRun(_, _)
\* value of the longest prefix of decimal digits of s, starting from acc
DigitRun(s, acc) ==
  IF Len(s) > 0 /\ IsDigit(Head(s)) THEN DigitRun(Tail(s), acc * 10 + (Head(s) - 48)) ELSE acc

\* parseInt(s, 10): leading white space, an optional sign, then decimal
\* digits up to the first other character; NaN when there is no digit
ParseInt(str) ==
  LET s == SkipSpaces(str)
      neg == Len(s) > 0 /\ Head(s) = MINUS
      body == IF Len(s) > 0 /\ (Head(s) = MINUS \/ Head(s) = PLUS) THEN Tail(s) ELSE s
  IN IF Len(body) = 0 \/ ~IsDigit(Head(body)) THEN NaN
     ELSE IF neg THEN 0 - DigitRun(body, 0) ELSE DigitRun(body, 0)

\* String.prototype.split('$'): the pieces between the separators
Split(s) ==
  LET seps == {i \in 1..Len(s) : s[i] = DOLLAR}
      \* position of the j-th separator; 0 before the first, Len(s) + 1 after the last
      pos(j) == IF j = 0 THEN 0
                ELSE IF j > Cardinality(seps) THEN Len(s) + 1
                ELSE CHOOSE i \in seps : Cardinality({x \in seps : x < i}) = j - 1
  IN [j \in 1..(Cardinality(seps) + 1) |-> SubSeq(s, pos(j - 1) + 1, pos(j) - 1)]

RECURSIVE Join(_)
\* Array.prototype.join('$')
Join(parts) ==
  IF Len(parts) = 0 THEN <<>>
  ELSE IF Len(parts) = 1 THEN parts[1]
  ELSE parts[1] \o <<DOLLAR>> \o Join(Tail(parts))

(***************************************************************************)
(* base64 (Buffer.toString('base64') and Buffer.from(s, 'base64'))         *)
(***************************************************************************)
\* the base64 alphabet A-Z a-z 0-9 + /
B64Alphabet ==
  [v \in 0..63 |->
     IF v < 26 THEN 65 + v
     ELSE IF v < 52 THEN 97 + (v - 26)
     ELSE IF v < 62 THEN 48 + (v - 52)
     ELSE IF v = 62 THEN PLUS ELSE SLASH]

B64Char(v) == B64Alphabet[v]

\* value of a base64 character, -1 for a character outside the alphabet
\* (the decoder also accepts the URL-safe characters - and _)
B64Values ==
  [c \in 0..255 |->
     IF c >= 65 /\ c <= 90 THEN c - 65
     ELSE IF c >= 97 /\ c <= 122 THEN c - 97 + 26
     ELSE IF c >= 48 /\ c <= 57 THEN c - 48 + 52
     ELSE IF c = PLUS \/ c = MINUS THEN 62
     ELSE IF c = SLASH \/ c = UNDERSCORE THEN 63
     ELSE -1]

B64Val(c) == B64Values[c]

\* Buffer.toString('base64'): 4 characters for every 3 bytes, '=' padding
Base64Encode(b) ==
  LET n == Len(b)
      byte(i) == IF i <= n THEN b[i] ELSE 0
      char(k) ==
        LET g == (k - 1) \div 4
            p == (k - 1) % 4
            b1 == byte(3 * g + 1)
            b2 == byte(3 * g + 2)
            b3 == byte(3 * g + 3)
        IN IF p = 0 THEN B64Char(b1 \div 4)
           ELSE IF p = 1 THEN B64Char((b1 % 4) * 16 + (b2 \div 16))
           ELSE IF p = 2 THEN (IF 3 * g + 2 > n THEN EQUALS
                               ELSE B64Char((b2 % 16) * 4 + (b3 \div 64)))
           ELSE (IF 3 * g + 3 > n THEN EQUALS ELSE B64Char(b3 % 64))
  IN [k \in 1..(4 * ((n + 2) \div 3)) |-> char(k)]

\* the 6-bit values of the text up to the first '=', skipping foreign characters
Sextets(s) ==
  LET pads == {i \in 1..Len(s) : s[i] = EQUALS}
      end == IF pads = {} THEN Len(s) ELSE (CHOOSE i \in pads : \A j \in pads : i <= j) - 1
      kept == SelectSeq(SubSeq(s, 1, end), LAMBDA c : B64Val(c) >= 0)
  IN [i \in 1..Len(kept) |-> B64Val(kept[i])]

\* 3 bytes for every 4 values; 2 or 3 trailing values give 1 or 2 bytes
SextetsToBytes(v) ==
  LET byte(j) ==
        LET g == 4 * ((j - 1) \div 3)
            p == (j - 1) % 3
        IN IF p = 0 THEN v[g + 1] * 4 + (v[g + 2] \div 16)
           ELSE IF p = 1 THEN (v[g + 2] % 16) * 16 + (v[g + 3] \div 4)
           ELSE (v[g + 3] % 4) * 64 + v[g + 4]
  IN [j \in 1..((Len(v) * 6) \div 8) |-> byte(j)]

Base64Decode(s) == SextetsToBytes(Sextets(s))

(***************************************************************************)
(* Encoder (encode.js)                                                     *)
(*                                                                         *)
(* Where the code binds the result of a call with `const x = f(...)` and   *)
(* reads x several times, the definitions bind it the same way:            *)
(*   CHOOSE r \in {F(x) : x \in {v}} : TRUE   is F(v), v evaluated once.    *)
(***************************************************************************)

\* the result of a call that returned v
Ret(v) == [threw |-> FALSE, error |-> "", value |-> v]
\* the result of a call that threw an Error with message msg
Throw(msg) == [threw |-> TRUE, error |-> msg, value |-> {}]

\* a hash record as the encoder sees it; a field that does not apply is Undef
Metadata(version, algorithm, salt, hash, iterations, timeCost, memoryCost, parallelism) ==
  [version |-> version, algorithm |-> algorithm, salt |-> salt, hash |-> hash,
   iterations |-> iterations, timeCost |-> timeCost, memoryCost |-> memoryCost,
   parallelism |-> parallelism]

getSupportedAlgorithms == {STR_argon2id, STR_pbkdf2, STR_hmac_sha512}

\* _validateMetadata: the message of the Error it throws, "" when it returns
_validateMetadata(m) ==
  IF Lt(m.version, 1) \/ Gt(m.version, 999) THEN "Version must be between 1 and 999"
  ELSE IF m.algorithm \notin getSupportedAlgorithms THEN "Unsupported algorithm"
  ELSE IF Len(m.salt) < 16 THEN "Salt must be at least 16 bytes"
  ELSE IF Len(m.hash) < 32 THEN "Hash must be at least 32 bytes"
  ELSE IF m.algorithm = STR_argon2id THEN
    IF Lt(m.timeCost, 1) \/ Gt(m.timeCost, 10) THEN "Invalid timeCost"
    ELSE IF Lt(m.memoryCost, 4096) \/ Gt(m.memoryCost, 1048576) THEN "Invalid memoryCost"
    ELSE IF Lt(m.parallelism, 1) \/ Gt(m.parallelism, 16) THEN "Invalid parallelism"
    ELSE ""
  ELSE IF Lt(m.iterations, 1000) \/ Gt(m.iterations, 1000000) THEN "Invalid iterations"
  ELSE ""

_encodeComponent(buffer) == Base64Encode(buffer)

_decodeComponent(encoded) == Base64Decode(encoded)

\* the cost fields with memoryCost pushed before timeCost
EncodeParams_swapped(m) ==
  IF m.algorithm = STR_argon2id
  THEN <<NumToString(m.memoryCost), NumToString(m.timeCost), NumToString(m.parallelism)>>
  ELSE <<NumToString(m.iterations)>>

\* the cost fields of the text, in the order encodeHash pushes them
EncodeParams(m) ==
  IF m.algorithm = STR_argon2id
  THEN <<NumToString(m.timeCost), NumToString(m.memoryCost), NumToString(m.parallelism)>>
  ELSE <<NumToString(m.iterations)>>

\* encodeHash(metadata): the '$'-joined text, or the Error thrown
encodeHash(m) ==
  LET version == IF m.version = Undef THEN 2 ELSE m.version
      err == _validateMetadata(m)
      missing == IF m.algorithm = STR_argon2id
                 THEN IsNullish(m.timeCost) \/ IsNullish(m.memoryCost)
                      \/ IsNullish(m.parallelism)
                 ELSE IsNullish(m.iterations)
  IN IF err # "" THEN Throw(err)
     ELSE IF missing \/ IsNullish(version) THEN Throw("TypeError: toString of undefined")
     ELSE Ret(Join(<<STR_hmax, NumToString(version), m.algorithm, _encodeComponent(m.salt)>>
                   \o EncodeParams(m) \o <<_encodeComponent(m.hash)>>))

\* decodeHash without the comparison of the first field with 'hmax'
decodeHash_anyPrefix(encodedString) ==
  CHOOSE result \in
    {IF Len(parts) < 6 THEN Throw("Invalid HMAX format: insufficient parts")
     ELSE LET version == ParseInt(parts[2])
              algorithm == parts[3]
              salt == _decodeComponent(parts[4])
          IN IF algorithm = STR_argon2id THEN
               IF Len(parts) # 8 THEN Throw("Invalid Argon2id format")
               ELSE Ret(Metadata(version, algorithm, salt, _decodeComponent(parts[8]),
                                 Undef, ParseInt(parts[5]), ParseInt(parts[6]),
                                 ParseInt(parts[7])))
             ELSE IF algorithm = STR_pbkdf2 \/ algorithm = STR_hmac_sha512 THEN
               IF Len(parts) # 6 THEN Throw("Invalid PBKDF2/HMAC format")
               ELSE Ret(Metadata(version, algorithm, salt, _decodeComponent(parts[6]),
                                 ParseInt(parts[5]), Undef, Undef, Undef))
             ELSE Throw("Unsupported algorithm") :
       parts \in {Split(encodedString)}} : TRUE

\* decodeHash(encodedString): the metadata, or the Error thrown
decodeHash(encodedString) ==
  CHOOSE result \in
    {IF Len(parts) < 6 THEN Throw("Invalid HMAX format: insufficient parts")
     ELSE IF parts[1] # STR_hmax THEN Throw("Invalid HMAX format: missing hmax prefix")
     ELSE LET version == ParseInt(parts[2])
              algorithm == parts[3]
              salt == _decodeComponent(parts[4])
          IN IF algorithm = STR_argon2id THEN
               IF Len(parts) # 8 THEN Throw("Invalid Argon2id format")
               ELSE Ret(Metadata(version, algorithm, salt, _decodeComponent(parts[8]),
                                 Undef, ParseInt(parts[5]), ParseInt(parts[6]),
                                 ParseInt(parts[7])))
             ELSE IF algorithm = STR_pbkdf2 \/ algorithm = STR_hmac_sha512 THEN
               IF Len(parts) # 6 THEN Throw("Invalid PBKDF2/HMAC format")
               ELSE Ret(Metadata(version, algorithm, salt, _decodeComponent(parts[6]),
                                 ParseInt(parts[5]), Undef, Undef, Undef))
             ELSE Throw("Unsupported algorithm") :
       parts \in {Split(encodedString)}} : TRUE

\* extractMetadata(encodedString): the public part of the decoded record
extractMetadata(encodedString) ==
  CHOOSE result \in
    {IF d.threw THEN Throw("Failed to extract metadata")
     ELSE Ret([version |-> d.value.version, algorithm |-> d.value.algorithm,
               iterations |-> d.value.iterations, timeCost |-> d.value.timeCost,
               memoryCost |-> d.value.memoryCost, parallelism |-> d.value.parallelism,
               hashLength |-> Len(d.value.hash), saltLength |-> Len(d.value.salt)]) :
       d \in {decodeHash(encodedString)}} : TRUE

\* needsMigration(encodedString, currentConfig): currentConfig is <<>> for a
\* call without the argument and <<cfg>> otherwise.  The body declares
\* `const config = currentConfig || config.getConfig()`: the name config in
\* the initialiser is the constant being declared, still uninitialised, so
\* evaluating the right operand throws a ReferenceError.
needsMigration(encodedString, currentConfig) ==
  IF Len(currentConfig) = 0 THEN Throw("Cannot access 'config' before initialization")
  ELSE CHOOSE result \in
         {LET config == currentConfig[1]
              metadata == d.value
          IN IF d.threw THEN d
             ELSE IF Lt(metadata.version, config.encoding.formatVersion) THEN Ret(TRUE)
             ELSE IF metadata.algorithm = STR_argon2id THEN
               Ret(Lt(metadata.timeCost, config.argon2.timeCost)
                   \/ Lt(metadata.memoryCost, config.argon2.memoryCost)
                   \/ Lt(metadata.parallelism, config.argon2.parallelism))
             ELSE IF metadata.algorithm = STR_pbkdf2 THEN
               Ret(Lt(metadata.iterations, config.pbkdf2.iterations))
             ELSE Ret(FALSE) :
            d \in {decodeHash(encodedString)}} : TRUE

(***************************************************************************)
(* Bounds of the model                                                     *)
(***************************************************************************)
\* secret identifiers generated
MaxIds == 3
\* successful configuration changes
MaxSets == 1
\* readings of the clock beyond the first
MaxNow == 1

(***************************************************************************)
(* State                                                                   *)
(***************************************************************************)
VARIABLES
  config,       \* HMaxConfig._config
  secrets,      \* SecretManager.secrets: the Map, as its entries in insertion order
  nextId,       \* number of secret identifiers generated so far
  now,          \* the clock read by Date.now()
  initialized,  \* HMaxSecure.initialized
  records,      \* the record the caller holds (none or one), with how it was made
  sets,         \* number of successful configuration changes
  trimmed,      \* the secrets that have left the Map, with the bytes they hold
  rotationCallbacks,  \* SecretManager.rotationCallbacks: the Set, in insertion order
  last          \* the last call and what it returned or threw

vars ==
  <<config, secrets, nextId, now, initialized, records, sets, trimmed, rotationCallbacks,
    last>>

(***************************************************************************)
(* Configuration (config.js)                                               *)
(***************************************************************************)
DEFAULT_CONFIG ==
  [saltLength |-> 32,
   hmacAlgorithm |-> "sha512",
   argon2 |-> [memoryCost |-> 65536, timeCost |-> 3, parallelism |-> 4],
   pbkdf2 |-> [iterations |-> 210000, digest |-> "sha512"],
   secrets |-> [enablePepper |-> TRUE, maxPreviousSecrets |-> 3, currentSecret |-> <<>>],
   encoding |-> [formatVersion |-> 2]]

ApprovedDigests == {"sha256", "sha384", "sha512"}

\* getConfig(): a frozen deep copy of the stored configuration
getConfig == config

\* _deepMerge(target, source): source is a partial configuration, given as a
\* record that has a field for every leaf it sets
_deepMerge(target, source) ==
  LET has(k) == k \in DOMAIN source
  IN [saltLength |-> IF has("saltLength") THEN source.saltLength ELSE target.saltLength,
      hmacAlgorithm |-> IF has("hmacAlgorithm") THEN source.hmacAlgorithm
                        ELSE target.hmacAlgorithm,
      argon2 |-> [memoryCost |-> IF has("memoryCost") THEN source.memoryCost
                                 ELSE target.argon2.memoryCost,
                  timeCost |-> IF has("timeCost") THEN source.timeCost
                               ELSE target.argon2.timeCost,
                  parallelism |-> IF has("parallelism") THEN source.parallelism
                                  ELSE target.argon2.parallelism],
      pbkdf2 |-> [iterations |-> IF has("iterations") THEN source.iterations
                                 ELSE target.pbkdf2.iterations,
                  digest |-> IF has("digest") THEN source.digest ELSE target.pbkdf2.digest],
      secrets |-> [enablePepper |-> IF has("enablePepper") THEN source.enablePepper
                                    ELSE target.secrets.enablePepper,
                   maxPreviousSecrets |-> IF has("maxPreviousSecrets")
                                          THEN source.maxPreviousSecrets
                                          ELSE target.secrets.maxPreviousSecrets,
                   currentSecret |-> IF has("currentSecret") THEN source.currentSecret
                                     ELSE target.secrets.currentSecret],
      encoding |-> [formatVersion |-> IF has("formatVersion") THEN source.formatVersion
                                      ELSE target.encoding.formatVersion]]

\* _validateConfig without the validators of pbkdf2.iterations and saltLength
_validateConfig_lax(c) ==
  IF c.hmacAlgorithm \notin ApprovedDigests THEN "Invalid HMAC algorithm"
  ELSE IF ~(c.argon2.memoryCost >= 4096 /\ c.argon2.memoryCost <= 1048576)
    THEN "Argon2 memoryCost must be between 4096 and 1048576"
  ELSE IF ~(c.argon2.timeCost >= 1 /\ c.argon2.timeCost <= 10)
    THEN "Argon2 timeCost must be between 1 and 10"
  ELSE IF ~(c.argon2.parallelism >= 1 /\ c.argon2.parallelism <= 16)
    THEN "Argon2 parallelism must be between 1 and 16"
  ELSE IF c.pbkdf2.digest \notin ApprovedDigests THEN "Invalid PBKDF2 digest algorithm"
  ELSE IF c.secrets.enablePepper /\ Len(c.secrets.currentSecret) = 0
    THEN "Current secret must be set when pepper is enabled"
  ELSE ""

\* _validateConfig: the message of the Error it throws, "" when it returns
_validateConfig(c) ==
  IF ~(c.saltLength >= 16 /\ c.saltLength <= 64)
    THEN "Salt length must be between 16 and 64 bytes"
  ELSE IF c.hmacAlgorithm \notin ApprovedDigests THEN "Invalid HMAC algorithm"
  ELSE IF ~(c.argon2.memoryCost >= 4096 /\ c.argon2.memoryCost <= 1048576)
    THEN "Argon2 memoryCost must be between 4096 and 1048576"
  ELSE IF ~(c.argon2.timeCost >= 1 /\ c.argon2.timeCost <= 10)
    THEN "Argon2 timeCost must be between 1 and 10"
  ELSE IF ~(c.argon2.parallelism >= 1 /\ c.argon2.parallelism <= 16)
    THEN "Argon2 parallelism must be between 1 and 16"
  ELSE IF ~(c.pbkdf2.iterations >= 10000 /\ c.pbkdf2.iterations <= 1000000)
    THEN "PBKDF2 iterations must be between 10000 and 1000000"
  ELSE IF c.pbkdf2.digest \notin ApprovedDigests THEN "Invalid PBKDF2 digest algorithm"
  ELSE IF c.secrets.enablePepper /\ Len(c.secrets.currentSecret) = 0
    THEN "Current secret must be set when pepper is enabled"
  ELSE ""

(***************************************************************************)
(* Secret store (secrets.js)                                               *)
(***************************************************************************)
\* the Map key under which the current secret is kept ('current')
CurrentKey == <<99, 117, 114, 114, 101, 110, 116>>

\* a secret: tag names its byte material, len is its length in bytes and
\* isBytes tells whether the value is a Uint8Array
Secret(tag, len, isBytes) == [tag |-> tag, len |-> len, isBytes |-> isBytes]

\* position of key k in the Map m, 0 when absent
KeyIndex(m, k) ==
  IF \E i \in 1..Len(m) : m[i].key = k
  THEN CHOOSE i \in 1..Len(m) : m[i].key = k
  ELSE 0

MapHas(m, k) == KeyIndex(m, k) # 0

\* Map.prototype.set: an existing key keeps its position, a new one goes last
MapSet(m, k, v) ==
  LET e == [key |-> k, id |-> v.id, secret |-> v.secret, timestamp |-> v.timestamp]
  IN IF MapHas(m, k) THEN [m EXCEPT ![KeyIndex(m, k)] = e] ELSE Append(m, e)

\* Map.prototype.delete
MapDelete(m, k) == SelectSeq(m, LAMBDA e : e.key # k)

\* _generateSecretId(): `sec_${Date.now()}_${random}`, the reading t of the
\* clock and the random suffix of the n-th generated identifier
_generateSecretId(n, t) == <<t, n + 1>>

\* the checks of setCurrentSecret: the Error message, "" when they pass
SecretError(secret) ==
  IF ~secret.isBytes THEN "Secret must be a Uint8Array"
  ELSE IF secret.len < 32 THEN "Secret must be at least 32 bytes"
  ELSE ""

\* setCurrentSecret(secret) on the Map m with n identifiers generated, at time t
setCurrentSecret(m, n, t, secret) ==
  MapSet(m, CurrentKey, [id |-> _generateSecretId(n, t), secret |-> secret, timestamp |-> t])

\* addPreviousSecret(secret, id) on the Map m: id is the identifier to use
addPreviousSecret(m, t, secret, id) ==
  MapSet(m, id, [id |-> id, secret |-> secret, timestamp |-> t])

\* getCurrentSecret(): the current secret, or the Error thrown
getCurrentSecret(m) ==
  IF MapHas(m, CurrentKey) THEN Ret(m[KeyIndex(m, CurrentKey)].secret)
  ELSE Throw("No current secret set")

\* getAllSecrets(): the secrets in Map order
getAllSecrets(m) == [i \in 1..Len(m) |-> m[i].secret]

\* the secrets the Map m holds, as a set
Held(m) == {m[i].secret : i \in 1..Len(m)}

\* the secrets the Map m holds as previous ones
HeldPrevious(m) == {m[i].secret : i \in {j \in 1..Len(m) : m[j].key # CurrentKey}}

\* Array.prototype.sort by timestamp descending (stable): insertion of the
\* entries one by one, each behind the entries that are not older
RECURSIVE SortByTimestampDesc(_)
SortByTimestampDesc(es) ==
  IF Len(es) = 0 THEN <<>>
  ELSE LET rest == SortByTimestampDesc(SubSeq(es, 1, Len(es) - 1))
           e == es[Len(es)]
           k == Cardinality({i \in 1..Len(rest) : rest[i].timestamp >= e.timestamp})
       IN SubSeq(rest, 1, k) \o <<e>> \o SubSeq(rest, k + 1, Len(rest))

\* _trimOldSecrets() on the Map m: the Map without the entries beyond the cap
_trimOldSecrets(m) ==
  LET maxPreviousSecrets == getConfig.secrets.maxPreviousSecrets
      previousSecrets == SortByTimestampDesc(SelectSeq(m, LAMBDA e : e.key # CurrentKey))
      excess == {previousSecrets[i].key : i \in (maxPreviousSecrets + 1)..Len(previousSecrets)}
  IN SelectSeq(m, LAMBDA e : e.key \notin excess)

\* a rotation handler: throws tells whether its body throws
Handler(name, throws) == [name |-> name, throws |-> throws]

\* Set.prototype.add: a member keeps its position, a new one goes last
SetAdd(set, x) == IF \E i \in 1..Len(set) : set[i] = x THEN set ELSE Append(set, x)

\* Set.prototype.delete
SetDelete(set, x) == SelectSeq(set, LAMBDA e : e # x)

\* _notifyRotation stopping at the first handler that throws
_notifyRotation_stopAtThrow(callbacks, m, newSecretId, oldSecretId) ==
  LET thrower == {i \in 1..Len(callbacks) : callbacks[i].throws}
      stop == IF thrower = {} THEN Len(callbacks)
              ELSE CHOOSE i \in thrower : \A j \in thrower : i <= j
  IN [i \in 1..stop |->
        [handler |-> callbacks[i], newId |-> newSecretId, oldId |-> oldSecretId,
         saw |-> m, threw |-> callbacks[i].throws]]

\* _notifyRotation(newSecretId, oldSecretId) with the Set callbacks and the
\* Map m as they are when it runs: the invocations it makes, in order, each
\* with its arguments, the Map the handler finds and whether it threw (the
\* catch logs the error and the loop goes on)
_notifyRotation(callbacks, m, newSecretId, oldSecretId) ==
  [i \in 1..Len(callbacks) |->
     [handler |-> callbacks[i], newId |-> newSecretId, oldId |-> oldSecretId,
      saw |-> m, threw |-> callbacks[i].throws]]

(***************************************************************************)
(* Keyed hash and key derivation (hmac.js, pbkdf2.js, argon2.js)           *)
(*                                                                         *)
(* A digest is the sequence of its inputs' identities padded with zeros to *)
(* the digest length: equal digests come from equal inputs only.           *)
(***************************************************************************)
Pad(fields, n) == [i \in 1..n |-> IF i <= Len(fields) THEN fields[i] ELSE 0]

DigestIndex(alg) == IF alg = "sha256" THEN 1 ELSE IF alg = "sha384" THEN 2 ELSE 3
DigestLength(alg) == IF alg = "sha256" THEN 32 ELSE IF alg = "sha384" THEN 48 ELSE 64

\* what identifies a salt buffer: its first byte and its length
SaltId(salt) == <<IF Len(salt) > 0 THEN salt[1] ELSE 0, Len(salt)>>

\* the pepper argument when no pepper is passed (null)
NoPepper == 0

\* createHMAC(data, salt, pepper) with the secret Map m: the layered HMAC
\* under the CURRENT secret, or the Error thrown when there is none
createHMAC(m, data, salt, pepper) ==
  LET masterSecret == getCurrentSecret(m)
      usePepper == getConfig.secrets.enablePepper /\ pepper # NoPepper
  IN IF masterSecret.threw THEN masterSecret
     ELSE Ret(Pad(<<1, DigestIndex(getConfig.hmacAlgorithm), masterSecret.value.tag>>
                  \o SaltId(salt) \o <<data.id, IF usePepper THEN pepper ELSE 0>>,
                  DigestLength(getConfig.hmacAlgorithm)))

\* pbkdf2 _validateParams: the Error message, "" when it returns
PBKDF2_validateParams(iterations, digest, keyLength) ==
  IF Lt(iterations, 10000) \/ Gt(iterations, 1000000)
    THEN "Iterations must be between 10000 and 1000000"
  ELSE IF digest \notin ApprovedDigests THEN "Invalid digest algorithm"
  ELSE IF Lt(keyLength, 16) \/ Gt(keyLength, 128)
    THEN "Key length must be between 16 and 128 bytes"
  ELSE ""

\* pbkdf2 deriveKey(password, salt, options): options.iterations and
\* options.keyLength are Undef when the caller leaves them out
PBKDF2_deriveKey(password, salt, options) ==
  LET iterations == IF options.iterations = Undef THEN getConfig.pbkdf2.iterations
                    ELSE options.iterations
      digest == getConfig.pbkdf2.digest
      keyLength == IF options.keyLength = Undef THEN 64 ELSE options.keyLength
      err == PBKDF2_validateParams(iterations, digest, keyLength)
  IN IF err # "" THEN Throw(err)
     ELSE IF ~IsNum(iterations) \/ ~IsNum(keyLength) THEN Throw("ERR_INVALID_ARG_TYPE")
     ELSE Ret(Pad(<<2, DigestIndex(digest), iterations % 256, (iterations \div 256) % 256,
                    iterations \div 65536>> \o SubSeq(password, 2, 7) \o SaltId(salt),
                  keyLength))

\* pbkdf2 deriveKeySync: the same derivation on the calling thread
PBKDF2_deriveKeySync(password, salt, options) == PBKDF2_deriveKey(password, salt, options)

\* argon2 _validateParams: the Error message, "" when it returns
Argon2_validateParams(memoryCost, timeCost, parallelism, keyLength) ==
  IF Lt(memoryCost, 4096) \/ Gt(memoryCost, 1048576)
    THEN "Memory cost must be between 4096 and 1048576"
  ELSE IF Lt(timeCost, 1) \/ Gt(timeCost, 10) THEN "Time cost must be between 1 and 10"
  ELSE IF Lt(parallelism, 1) \/ Gt(parallelism, 16)
    THEN "Parallelism must be between 1 and 16"
  ELSE IF Lt(keyLength, 16) \/ Gt(keyLength, 128)
    THEN "Key length must be between 16 and 128 bytes"
  ELSE ""

\* _memoryHardPhase and _mixMemoryBlocks.  Block i is scrypt(password,
\* salt || (i & 0xff)), so blocks i and i + 256 are the same buffer.  The mix
\* is the XOR of the first parallelism * segmentSize blocks: the blocks
\* whose index mod 256 occurs an odd number of times.  The result names that
\* set by <<parity, rest>>; zero tells that the set is empty (the all-zero
\* block); an empty segment makes segmentBlocks[0].length throw.
_memoryHardPhase(memoryCost, parallelism) ==
  LET blockSize == 1024
      totalBlocks == memoryCost \div blockSize
      segmentSize == totalBlocks \div parallelism
      used == parallelism * segmentSize
      q == used \div 256
      r == used % 256
  IN IF segmentSize = 0 THEN Throw("TypeError: Cannot read properties of undefined")
     ELSE Ret([parity |-> q % 2, rest |-> r, zero |-> (r = 0 /\ q % 2 = 0)])

\* argon2 deriveKey(password, salt, options): the memory-hard phase, timeCost
\* compression passes with p = min(parallelism, 2), and the final derivation
Argon2_deriveKey(password, salt, options) ==
  LET memoryCost == IF options.memoryCost = Undef THEN getConfig.argon2.memoryCost
                    ELSE options.memoryCost
      timeCost == IF options.timeCost = Undef THEN getConfig.argon2.timeCost
                  ELSE options.timeCost
      parallelism == IF options.parallelism = Undef THEN getConfig.argon2.parallelism
                     ELSE options.parallelism
      keyLength == IF options.keyLength = Undef THEN 64 ELSE options.keyLength
      err == Argon2_validateParams(memoryCost, timeCost, parallelism, keyLength)
      safeP == IF parallelism < 2 THEN parallelism ELSE 2
  IN IF err # "" THEN Throw(err)
     ELSE IF ~IsNum(memoryCost) \/ ~IsNum(timeCost) \/ ~IsNum(parallelism)
       THEN Throw("TypeError: Cannot read properties of undefined")
     ELSE LET mixed == _memoryHardPhase(memoryCost, parallelism)
          IN IF mixed.threw THEN mixed
             ELSE Ret(Pad(<<3, timeCost, safeP, mixed.value.parity, mixed.value.rest>>
                          \o (IF mixed.value.zero THEN <<0, 0, 0, 0, 0, 0>>
                              ELSE SubSeq(password, 2, 7))
                          \o SaltId(salt),
                          keyLength))

\* Argon2 deriveKeySync(): always throws
Argon2_deriveKeySync == Throw("Argon2 derivation should be async. Use deriveKey instead.")

\* timing.verifyHash(provided, expected): false on a length mismatch, else
\* crypto.timingSafeEqual
verifyHash(provided, expected) ==
  IF Len(provided) # Len(expected) THEN FALSE ELSE provided = expected

(***************************************************************************)
(* Verifier (verify.js)                                                    *)
(***************************************************************************)
\* _recomputeHash(password, metadata, pepper): the key derived again from
\* the candidate password and the record's parameters, or the Error thrown
_recomputeHash(password, metadata, pepper) ==
  CHOOSE computedHash \in
    {IF hmacResult.threw THEN hmacResult
     ELSE IF metadata.algorithm = STR_argon2id THEN
       Argon2_deriveKey(hmacResult.value, metadata.salt,
                        [timeCost |-> metadata.timeCost, memoryCost |-> metadata.memoryCost,
                         parallelism |-> metadata.parallelism, keyLength |-> 64])
     ELSE IF metadata.algorithm = STR_pbkdf2 THEN
       PBKDF2_deriveKey(hmacResult.value, metadata.salt,
                        [iterations |-> metadata.iterations, keyLength |-> 64])
     ELSE IF metadata.algorithm = STR_hmac_sha512 THEN hmacResult
     ELSE Throw("Unsupported algorithm") :
       hmacResult \in {createHMAC(secrets, password, metadata.salt, pepper)}} : TRUE

\* _recomputeHashSync(password, metadata, pepper)
_recomputeHashSync(password, metadata, pepper) ==
  CHOOSE computedHash \in
    {IF hmacResult.threw THEN hmacResult
     ELSE IF metadata.algorithm = STR_pbkdf2 THEN
       PBKDF2_deriveKeySync(hmacResult.value, metadata.salt,
                            [iterations |-> metadata.iterations, keyLength |-> 64])
     ELSE IF metadata.algorithm = STR_hmac_sha512 THEN hmacResult
     ELSE Throw("Unsupported sync algorithm") :
       hmacResult \in {createHMAC(secrets, password, metadata.salt, pepper)}} : TRUE

\* a catch block that lets the Error escape to the caller
VerifyCaught_rethrow(msg) ==
  [verified |-> FALSE, needsMigration |-> FALSE, error |-> msg, threw |-> TRUE]

\* the outcome verifyPassword builds in its catch block
VerifyCaught(msg) ==
  [verified |-> FALSE, needsMigration |-> FALSE, error |-> msg, threw |-> FALSE]

\* an outcome whose verified property is true whatever the comparison said
VerifyOutcome_unchecked(verified, encodedHash) ==
  CHOOSE outcome \in
    {IF nm.threw THEN VerifyCaught(nm.error)
     ELSE [verified |-> TRUE, needsMigration |-> nm.value, error |-> "", threw |-> FALSE] :
       nm \in {IF ~verified THEN Ret(FALSE) ELSE needsMigration(encodedHash, <<>>)}} : TRUE

\* the outcome object of the try block: its needsMigration property calls
\* encoder.needsMigration(encodedHash) with no configuration when verified
VerifyOutcome(verified, encodedHash) ==
  CHOOSE outcome \in
    {IF nm.threw THEN VerifyCaught(nm.error)
     ELSE [verified |-> verified, needsMigration |-> nm.value, error |-> "", threw |-> FALSE] :
       nm \in {IF ~verified THEN Ret(FALSE) ELSE needsMigration(encodedHash, <<>>)}} : TRUE

\* verifyPassword(password, encodedHash, pepper): never throws, every Error
\* of the try block becomes the outcome of the catch block
verifyPassword(password, encodedHash, pepper) ==
  CHOOSE outcome \in
    {IF metadata.threw THEN VerifyCaught(metadata.error)
     ELSE CHOOSE verified \in
            {IF computedHash.threw THEN VerifyCaught(computedHash.error)
             ELSE VerifyOutcome(verifyHash(computedHash.value, metadata.value.hash),
                                encodedHash) :
               computedHash \in {_recomputeHash(password, metadata.value, pepper)}} : TRUE :
       metadata \in {decodeHash(encodedHash)}} : TRUE

\* verifyPasswordSync(password, encodedHash, pepper)
verifyPasswordSync(password, encodedHash, pepper) ==
  CHOOSE outcome \in
    {IF metadata.threw THEN VerifyCaught(metadata.error)
     ELSE IF metadata.value.algorithm = STR_argon2id
       THEN VerifyCaught("Argon2 verification must be async")
     ELSE CHOOSE verified \in
            {IF computedHash.threw THEN VerifyCaught(computedHash.error)
             ELSE VerifyOutcome(verifyHash(computedHash.value, metadata.value.hash),
                                encodedHash) :
               computedHash \in {_recomputeHashSync(password, metadata.value, pepper)}} : TRUE :
       metadata \in {decodeHash(encodedHash)}} : TRUE

\* a migration that does not look at verification.verified
migrateHashIfOutdated_unverified(password, encodedHash, pepper) ==
  CHOOSE result \in
    {IF ~verification.needsMigration
     THEN Ret([migrated |-> FALSE, hash |-> encodedHash])
     ELSE Throw("TypeError: Cannot read properties of undefined") :
       verification \in {verifyPassword(password, encodedHash, pepper)}} : TRUE

\* migrateHashIfOutdated(password, encodedHash, pepper).  The re-hash calls
\* the createHash binding exported by index.js, a method taken off its
\* object: it runs with this undefined and throws a TypeError.
migrateHashIfOutdated(password, encodedHash, pepper) ==
  CHOOSE result \in
    {IF ~verification.verified THEN Throw("Cannot migrate: password verification failed")
     ELSE IF ~verification.needsMigration
       THEN Ret([migrated |-> FALSE, hash |-> encodedHash])
     ELSE Throw("TypeError: Cannot read properties of undefined") :
       verification \in {verifyPassword(password, encodedHash, pepper)}} : TRUE

\* auditHash(encodedHash): the report; every Error becomes an invalid-format report
auditHash(encodedHash) ==
  CHOOSE report \in
    {LET metadata == d.value
         currentConfig == getConfig
         versionIssues ==
           IF Lt(metadata.version, currentConfig.encoding.formatVersion)
           THEN <<"Outdated format version">> ELSE <<>>
         costIssues ==
           IF metadata.algorithm = STR_argon2id THEN
             (IF Lt(metadata.memoryCost, currentConfig.argon2.memoryCost)
              THEN <<"Insufficient memory cost">> ELSE <<>>)
             \o (IF Lt(metadata.timeCost, currentConfig.argon2.timeCost)
                 THEN <<"Insufficient time cost">> ELSE <<>>)
           ELSE IF metadata.algorithm = STR_pbkdf2 THEN
             (IF Lt(metadata.iterations, currentConfig.pbkdf2.iterations)
              THEN <<"Insufficient iterations">> ELSE <<>>)
           ELSE <<>>
         warnings == IF metadata.algorithm = STR_hmac_sha512
                     THEN <<"Using legacy HMAC-only algorithm">> ELSE <<>>
         generalIssues ==
           (IF Len(metadata.salt) < 16 THEN <<"Salt too short">> ELSE <<>>)
           \o (IF Len(metadata.hash) < 32 THEN <<"Hash too short">> ELSE <<>>)
         issues == versionIssues \o costIssues \o generalIssues
     IN IF d.threw
        THEN [secure |-> FALSE, issues |-> <<"Invalid hash format">>, warnings |-> <<>>,
              threw |-> FALSE]
        ELSE [secure |-> Len(issues) = 0, issues |-> issues, warnings |-> warnings,
              threw |-> FALSE] :
       d \in {decodeHash(encodedHash)}} : TRUE

(***************************************************************************)
(* Library entry points (index.js)                                         *)
(***************************************************************************)
\* a password: id names its text, len is its length
Password(id, len) == [id |-> id, len |-> len]

\* _validatePassword: the Error message, "" when it returns
_validatePassword(password) ==
  IF password.len < 1 THEN "Password cannot be empty"
  ELSE IF password.len > 1024 THEN "Password too long"
  ELSE ""

\* generateSecret(): 64 random bytes; n makes the material fresh
generateSecret(n) == Secret(10 + n, 64, TRUE)

\* randomBytes(length) with the random outcome named by tag
randomBytes(tag, length) == Pad(<<tag>>, length)

\* the Map after _ensureInitialized(): an uninitialized library installs a
\* generated secret as the current one
_ensureInitialized(m) ==
  IF ~initialized THEN setCurrentSecret(m, nextId, now, generateSecret(nextId)) ELSE m

\* createHash(password, options) once _ensureInitialized has produced the
\* Map m: the encoded record, or the Error thrown.  options.iterations is a
\* cost override (Undef when absent); the metadata takes the configured value.
createHash(m, password, options) ==
  LET algorithm == options.algorithm
      salt == options.salt
      version == getConfig.encoding.formatVersion
  IN IF _validatePassword(password) # "" THEN Throw(_validatePassword(password))
     ELSE CHOOSE result \in
       {IF hmacResult.threw THEN hmacResult
        ELSE IF algorithm = STR_argon2id THEN
          CHOOSE encoded \in
            {IF derivedKey.threw THEN derivedKey
             ELSE encodeHash(Metadata(version, algorithm, salt, derivedKey.value, Undef,
                                      getConfig.argon2.timeCost, getConfig.argon2.memoryCost,
                                      getConfig.argon2.parallelism)) :
               derivedKey \in
                 {Argon2_deriveKey(hmacResult.value, salt,
                    [memoryCost |-> getConfig.argon2.memoryCost,
                     timeCost |-> getConfig.argon2.timeCost,
                     parallelism |-> getConfig.argon2.parallelism,
                     keyLength |-> Undef])}} : TRUE
        ELSE IF algorithm = STR_pbkdf2 THEN
          CHOOSE encoded \in
            {IF derivedKey.threw THEN derivedKey
             ELSE encodeHash(Metadata(version, algorithm, salt, derivedKey.value,
                                      getConfig.pbkdf2.iterations, Undef, Undef, Undef)) :
               derivedKey \in
                 {PBKDF2_deriveKey(hmacResult.value, salt,
                    [iterations |-> IF options.iterations = Undef
                                    THEN getConfig.pbkdf2.iterations
                                    ELSE options.iterations,
                     keyLength |-> Undef])}} : TRUE
        ELSE Throw("Unsupported algorithm") :
          hmacResult \in {createHMAC(m, password, salt, options.pepper)}} : TRUE

\* createHashSync deriving with pbkdf2 when argon2id is asked for
createHashSync_fallback(m, password, options) ==
  LET algorithm == IF options.algorithm = STR_argon2id THEN STR_pbkdf2
                   ELSE options.algorithm
      salt == options.salt
      version == getConfig.encoding.formatVersion
  IN IF _validatePassword(password) # "" THEN Throw(_validatePassword(password))
     ELSE CHOOSE result \in
       {IF hmacResult.threw THEN hmacResult
        ELSE IF algorithm = STR_pbkdf2 THEN
          CHOOSE encoded \in
            {IF derivedKey.threw THEN derivedKey
             ELSE encodeHash(Metadata(version, algorithm, salt, derivedKey.value,
                                      getConfig.pbkdf2.iterations, Undef, Undef, Undef)) :
               derivedKey \in
                 {PBKDF2_deriveKeySync(hmacResult.value, salt,
                    [iterations |-> IF options.iterations = Undef
                                    THEN getConfig.pbkdf2.iterations
                                    ELSE options.iterations,
                     keyLength |-> Undef])}} : TRUE
        ELSE Throw("Unsupported sync algorithm") :
          hmacResult \in {createHMAC(m, password, salt, options.pepper)}} : TRUE

\* createHashSync(password, options)
createHashSync(m, password, options) ==
  LET algorithm == options.algorithm
      salt == options.salt
      version == getConfig.encoding.formatVersion
  IN IF _validatePassword(password) # "" THEN Throw(_validatePassword(password))
     ELSE IF algorithm = STR_argon2id THEN Throw("Argon2 is not available in sync mode")
     ELSE CHOOSE result \in
       {IF hmacResult.threw THEN hmacResult
        ELSE IF algorithm = STR_pbkdf2 THEN
          CHOOSE encoded \in
            {IF derivedKey.threw THEN derivedKey
             ELSE encodeHash(Metadata(version, algorithm, salt, derivedKey.value,
                                      getConfig.pbkdf2.iterations, Undef, Undef, Undef)) :
               derivedKey \in
                 {PBKDF2_deriveKeySync(hmacResult.value, salt,
                    [iterations |-> IF options.iterations = Undef
                                    THEN getConfig.pbkdf2.iterations
                                    ELSE options.iterations,
                     keyLength |-> Undef])}} : TRUE
        ELSE Throw("Unsupported sync algorithm") :
          hmacResult \in {createHMAC(m, password, salt, options.pepper)}} : TRUE

(***************************************************************************)
(* Inputs the callers draw from                                            *)
(***************************************************************************)
SecretA == Secret(1, 32, TRUE)
SecretB == Secret(2, 32, TRUE)
\* a secret that is too short
ShortSecret == Secret(4, 16, TRUE)

PwGood == Password(1, 11)
PwWrong == Password(2, 5)
PwEmpty == Password(0, 0)

\* a pepper buffer
PepperK == 1

\* initialize({currentSecret, previousSecrets}): each is <<>> when left out
InitCurrent == {<<>>, <<SecretA>>, <<ShortSecret>>}
InitPrevious == {<<>>}

\* rotateSecret(newSecret): <<>> stands for no argument
RotateInputs == {<<>>, <<ShortSecret>>}

\* rotateSecret(newSecret) with a secret the caller brings
RotateGiven == {<<SecretB>>}

\* the random outcomes of randomBytes for a salt
SaltTags == {7}

\* createHash calls: <<password, algorithm, pepper, iterations override>>
CreateInputs ==
  { <<PwGood, STR_pbkdf2, NoPepper, Undef>>,
    <<PwGood, STR_pbkdf2, PepperK, Undef>>,
    <<PwGood, STR_pbkdf2, NoPepper, 20000>>,
    <<PwGood, STR_argon2id, NoPepper, Undef>>,
    <<PwGood, STR_md5, NoPepper, Undef>>,
    <<PwEmpty, STR_pbkdf2, NoPepper, Undef>> }

\* the createHash calls that produce a record
RecordCreateInputs == {c \in CreateInputs : c[1] = PwGood /\ c[2] # STR_md5}

\* createHashSync calls
CreateSyncInputs ==
  { <<PwGood, STR_pbkdf2, NoPepper, 20000>>,
    <<PwGood, STR_argon2id, NoPepper, Undef>> }

\* partial configurations passed to setConfig
Partials ==
  << [iterations |-> 300000, currentSecret |-> <<SecretA>>],
     [iterations |-> 5000, currentSecret |-> <<SecretA>>],
     [iterations |-> 300000],
     [maxPreviousSecrets |-> 1, enablePepper |-> FALSE],
     [memoryCost |-> 131072, timeCost |-> 4, parallelism |-> 2,
      enablePepper |-> TRUE, maxPreviousSecrets |-> 5],
     [saltLength |-> 15, currentSecret |-> <<SecretA>>],
     [saltLength |-> 65],
     [hmacAlgorithm |-> "md5", currentSecret |-> <<SecretA>>],
     [digest |-> "sha1", enablePepper |-> FALSE],
     [memoryCost |-> 4095],
     [memoryCost |-> 1048577, currentSecret |-> <<SecretA>>],
     [timeCost |-> 0, enablePepper |-> FALSE],
     [timeCost |-> 11],
     [parallelism |-> 0, currentSecret |-> <<SecretA>>],
     [parallelism |-> 17],
     [iterations |-> 9999, enablePepper |-> FALSE],
     [iterations |-> 1000001, currentSecret |-> <<SecretA>>],
     [saltLength |-> 16, enablePepper |-> FALSE],
     [saltLength |-> 64, enablePepper |-> FALSE],
     [hmacAlgorithm |-> "sha256", digest |-> "sha384", enablePepper |-> FALSE],
     [memoryCost |-> 4096, timeCost |-> 1, parallelism |-> 1, enablePepper |-> FALSE],
     [memoryCost |-> 1048576, timeCost |-> 10, parallelism |-> 16, enablePepper |-> FALSE],
     [iterations |-> 10000, enablePepper |-> FALSE],
     [iterations |-> 1000000, enablePepper |-> FALSE],
     <<>> >>

\* the partial configurations that change the costs and the secret settings
CostPartials == 1..5

\* the partial configurations that setConfig accepts on the default one
AcceptedPartials ==
  {i \in CostPartials : _validateConfig(_deepMerge(DEFAULT_CONFIG, Partials[i])) = ""}

\* texts that no createHash produced
GoodSaltText == _encodeComponent(Pad(<<9>>, 16))
GoodHashText == _encodeComponent(Pad(<<9, 9>>, 64))
TextEmpty == <<>>
TextWrongPrefix ==
  Join(<<<<120, 109, 97, 120>>, <<50>>, STR_pbkdf2, GoodSaltText, NumToString(210000),
         GoodHashText>>)
TextUnknownAlgorithm ==
  Join(<<STR_hmax, <<50>>, STR_md5, GoodSaltText, NumToString(210000), GoodHashText>>)
TextArgonSixFields ==
  Join(<<STR_hmax, <<50>>, STR_argon2id, GoodSaltText, NumToString(3), GoodHashText>>)
TextPbkdf2SevenFields ==
  Join(<<STR_hmax, <<50>>, STR_pbkdf2, GoodSaltText, NumToString(210000), GoodHashText,
         <<>>>>)
TextNotNumbers ==
  Join(<<STR_hmax, <<120>>, STR_pbkdf2, <<>>, <<121>>, <<>>>>)
TextLegacy ==
  Join(<<STR_hmax, <<49>>, STR_hmac_sha512, GoodSaltText, NumToString(1000), GoodHashText>>)

\* an argon2id record with the configured timeCost and memoryCost, made
\* when parallelism was 2
TextArgonLowParallelism ==
  Join(<<STR_hmax, <<50>>, STR_argon2id, GoodSaltText, NumToString(3), NumToString(65536),
         NumToString(2), GoodHashText>>)

CraftedTexts ==
  {TextEmpty, TextWrongPrefix, TextUnknownAlgorithm, TextArgonSixFields,
   TextPbkdf2SevenFields, TextNotNumbers, TextLegacy, TextArgonLowParallelism}

RecordTexts == {r.text : r \in records}

\* <<password, text, pepper>> of the calls on the held record: the right and
\* a wrong password, with and without a pepper
RecordInputs == {PwGood, PwWrong} \X RecordTexts \X {NoPepper, PepperK}

\* the calls on any text: those on the held record, and one on each crafted text
VerifyInputs == RecordInputs \cup ({PwGood} \X CraftedTexts \X {NoPepper})

(***************************************************************************)
(* Initial state: the module singletons as constructed                     *)
(***************************************************************************)
Init ==
  /\ config = DEFAULT_CONFIG
  /\ secrets = <<>>
  /\ nextId = 0
  /\ now = 0
  /\ initialized = FALSE
  /\ records = {}
  /\ sets = 0
  /\ trimmed = {}
  /\ rotationCallbacks = <<>>
  /\ last = [op |-> "none"]

(***************************************************************************)
(* Operations                                                              *)
(***************************************************************************)
\* no call is being made: a call runs to completion and the caller takes
\* its result before it makes the next call
Idle == last.op = "none"

\* the caller takes the result of the call it made
Return ==
  /\ ~Idle
  /\ last' = [op |-> "none"]
  /\ UNCHANGED <<config, secrets, nextId, now, initialized, records, sets, trimmed,
               rotationCallbacks>>

\* previousSecrets.forEach(secret => addPreviousSecret(secret)): the Map and
\* the identifier count when the loop ends, ok = FALSE when an element threw
RECURSIVE AddPreviousAll(_, _, _, _)
AddPreviousAll(m, n, t, prev) ==
  IF Len(prev) = 0 THEN [m |-> m, n |-> n, ok |-> TRUE]
  ELSE IF ~Head(prev).isBytes THEN [m |-> m, n |-> n, ok |-> FALSE]
  ELSE AddPreviousAll(addPreviousSecret(m, t, Head(prev), _generateSecretId(n, t)), n + 1, t,
                      Tail(prev))

\* hmax.initialize({currentSecret: cur, previousSecrets: prev})
Initialize(cur, prev) ==
  LET curErr == IF Len(cur) = 0 THEN "" ELSE SecretError(cur[1])
      m1 == IF Len(cur) = 0 THEN secrets ELSE setCurrentSecret(secrets, nextId, now, cur[1])
      n1 == IF Len(cur) = 0 THEN nextId ELSE nextId + 1
      added == AddPreviousAll(m1, n1, now, prev)
  IN /\ Idle
     /\ nextId + Len(cur) + Len(prev) <= MaxIds
     /\ IF curErr # ""
        THEN /\ last' = [op |-> "initialize", threw |-> TRUE, error |-> curErr]
             /\ UNCHANGED <<secrets, nextId, initialized>>
        ELSE /\ secrets' = added.m
             /\ nextId' = added.n
             /\ initialized' = (initialized \/ added.ok)
             /\ last' = [op |-> "initialize", threw |-> ~added.ok,
                         error |-> IF added.ok THEN "" ELSE "Secret must be a Uint8Array"]
     /\ UNCHANGED <<config, now, records, sets, trimmed, rotationCallbacks>>

\* secretManager.rotateSecrets(newSecret), reached through hmax.rotateSecret:
\* archive the current secret, install the new one, trim, notify
RotateSecret(arg) ==
  LET secretToUse == IF Len(arg) = 0 THEN generateSecret(nextId) ELSE arg[1]
      has == MapHas(secrets, CurrentKey)
      current == secrets[KeyIndex(secrets, CurrentKey)]
      archived == addPreviousSecret(MapDelete(secrets, CurrentKey), now, current.secret,
                                    current.id)
      err == SecretError(secretToUse)
      installed == setCurrentSecret(archived, nextId, now, secretToUse)
  IN /\ Idle
     /\ nextId < MaxIds
     /\ IF ~has
        THEN /\ last' = [op |-> "rotateSecret", threw |-> TRUE,
                         error |-> "No current secret set", calls |-> <<>>]
             /\ UNCHANGED <<secrets, nextId, trimmed>>
        ELSE IF err # ""
        THEN /\ secrets' = archived
             /\ last' = [op |-> "rotateSecret", threw |-> TRUE, error |-> err,
                         calls |-> <<>>]
             /\ UNCHANGED <<nextId, trimmed>>
        ELSE /\ secrets' = _trimOldSecrets(installed)
             /\ trimmed' = trimmed \cup (Held(installed) \ Held(_trimOldSecrets(installed)))
             /\ nextId' = nextId + 1
             /\ last' = [op |-> "rotateSecret", threw |-> FALSE, error |-> "",
                         newId |-> _generateSecretId(nextId, now), oldId |-> current.id,
                         calls |-> _notifyRotation(rotationCallbacks,
                                                   _trimOldSecrets(installed),
                                                   _generateSecretId(nextId, now),
                                                   current.id)]
     /\ UNCHANGED <<config, now, initialized, records, sets, rotationCallbacks>>

\* config.setConfig(Partials[i])
SetConfig(i) ==
  LET mergedConfig == _deepMerge(config, Partials[i])
      err == _validateConfig(mergedConfig)
  IN /\ Idle
     /\ err # "" \/ sets < MaxSets
     /\ IF err # ""
        THEN /\ last' = [op |-> "setConfig", threw |-> TRUE, error |-> err, partial |-> i]
             /\ UNCHANGED <<config, sets>>
        ELSE /\ config' = mergedConfig
             /\ sets' = sets + 1
             /\ last' = [op |-> "setConfig", threw |-> FALSE, error |-> "", partial |-> i]
     /\ UNCHANGED <<secrets, nextId, now, initialized, records, trimmed, rotationCallbacks>>

\* what the caller remembers of a record it created
Made(text, password, options, m) ==
  [text |-> text, password |-> password, pepper |-> options.pepper,
   algorithm |-> options.algorithm,
   iterations |-> IF options.iterations = Undef \/ options.algorithm # STR_pbkdf2
                  THEN getConfig.pbkdf2.iterations ELSE options.iterations,
   sealedWith |-> getCurrentSecret(m).value, cfgAt |-> config]

\* hmax.createHash(password, {algorithm, pepper, iterations}), with the
\* random salt named by tag
CreateHash(password, algorithm, pepper, iterations, tag) ==
  LET options == [algorithm |-> algorithm, pepper |-> pepper, iterations |-> iterations,
                  salt |-> randomBytes(tag, getConfig.saltLength)]
      m == _ensureInitialized(secrets)
  IN /\ Idle
     /\ initialized \/ nextId < MaxIds
     /\ secrets' = m
     /\ nextId' = IF initialized THEN nextId ELSE nextId + 1
     /\ initialized' = TRUE
     /\ \E res \in {createHash(m, password, options)} :
          /\ records' = IF res.threw THEN records
                        ELSE {Made(res.value, password, options, m)}
          /\ last' = [op |-> "createHash", threw |-> res.threw, error |-> res.error,
                      text |-> IF res.threw THEN <<>> ELSE res.value]
     /\ UNCHANGED <<config, now, sets, trimmed, rotationCallbacks>>

\* hmax.createHashSync(password, {algorithm, pepper, iterations})
CreateHashSync(password, algorithm, pepper, iterations, tag) ==
  LET options == [algorithm |-> algorithm, pepper |-> pepper, iterations |-> iterations,
                  salt |-> randomBytes(tag, getConfig.saltLength)]
      m == _ensureInitialized(secrets)
  IN /\ Idle
     /\ initialized \/ nextId < MaxIds
     /\ secrets' = m
     /\ nextId' = IF initialized THEN nextId ELSE nextId + 1
     /\ initialized' = TRUE
     /\ \E res \in {createHashSync(m, password, options)} :
          /\ records' = IF res.threw THEN records
                        ELSE {Made(res.value, password, options, m)}
          /\ last' = [op |-> "createHashSync", threw |-> res.threw, error |-> res.error,
                      text |-> IF res.threw THEN <<>> ELSE res.value,
                      algorithm |-> algorithm]
     /\ UNCHANGED <<config, now, sets, trimmed, rotationCallbacks>>

\* hmax.verifyPassword(password, text, pepper)
VerifyPassword(password, text, pepper) ==
  /\ Idle
  /\ last' = [op |-> "verifyPassword", password |-> password, text |-> text,
              pepper |-> pepper, res |-> verifyPassword(password, text, pepper)]
  /\ UNCHANGED <<config, secrets, nextId, now, initialized, records, sets, trimmed,
               rotationCallbacks>>

\* hmax.verifyPasswordSync(password, text, pepper)
VerifyPasswordSync(password, text, pepper) ==
  /\ Idle
  /\ last' = [op |-> "verifyPasswordSync", password |-> password, text |-> text,
              pepper |-> pepper, res |-> verifyPasswordSync(password, text, pepper)]
  /\ UNCHANGED <<config, secrets, nextId, now, initialized, records, sets, trimmed,
               rotationCallbacks>>

\* hmax.migrateHashIfOutdated(password, text, pepper)
MigrateHashIfOutdated(password, text, pepper) ==
  /\ Idle
  /\ last' = [op |-> "migrateHashIfOutdated", password |-> password, text |-> text,
              pepper |-> pepper, res |-> migrateHashIfOutdated(password, text, pepper),
              before |-> [secrets |-> secrets, config |-> config, records |-> records]]
  /\ UNCHANGED <<config, secrets, nextId, now, initialized, records, sets, trimmed,
               rotationCallbacks>>

\* argon2.deriveKeySync()
DeriveKeySync ==
  /\ Idle
  /\ last' = [op |-> "deriveKeySync", res |-> Argon2_deriveKeySync]
  /\ UNCHANGED <<config, secrets, nextId, now, initialized, records, sets, trimmed,
                 rotationCallbacks>>

\* hmax.auditHash(text)
AuditHash(text) ==
  /\ Idle
  /\ last' = [op |-> "auditHash", text |-> text, res |-> auditHash(text)]
  /\ UNCHANGED <<config, secrets, nextId, now, initialized, records, sets, trimmed,
               rotationCallbacks>>

Next ==
  \/ Return
  \/ \E cur \in InitCurrent, prev \in InitPrevious : Initialize(cur, prev)
  \/ \E arg \in RotateInputs : RotateSecret(arg)
  \/ \E i \in AcceptedPartials : SetConfig(i)
  \/ \E c \in RecordCreateInputs, tag \in SaltTags : CreateHash(c[1], c[2], c[3], c[4], tag)
  \/ \E v \in RecordInputs : VerifyPassword(v[1], v[2], v[3])
  \/ \E v \in RecordInputs : MigrateHashIfOutdated(v[1], v[2], v[3])
  \/ \E text \in RecordTexts : AuditHash(text)

\* the life of a record: secrets rotate and the configuration changes around it
Spec == Init /\ [][Next]_vars

(***************************************************************************)
(* The entry points on every kind of argument, accepted or not             *)
(***************************************************************************)
NextTexts ==
  \/ Return
  \/ \E cur \in InitCurrent, prev \in InitPrevious : Initialize(cur, prev)
  \/ \E arg \in RotateGiven : RotateSecret(arg)
  \/ \E i \in CostPartials : SetConfig(i)
  \/ \E c \in CreateInputs, tag \in SaltTags : CreateHash(c[1], c[2], c[3], c[4], tag)
  \/ \E c \in CreateSyncInputs, tag \in SaltTags : CreateHashSync(c[1], c[2], c[3], c[4], tag)
  \/ \E v \in VerifyInputs : VerifyPassword(v[1], v[2], v[3])
  \/ \E v \in VerifyInputs : VerifyPasswordSync(v[1], v[2], v[3])
  \/ DeriveKeySync
  \/ \E text \in RecordTexts \cup CraftedTexts : AuditHash(text)

SpecTexts == Init /\ [][NextTexts]_vars

(***************************************************************************)
(* The configuration on its own (config.js): every field at and beyond    *)
(* the ends of its range                                                   *)
(***************************************************************************)
\* config.getConfig()
GetConfig ==
  /\ Idle
  /\ last' = [op |-> "getConfig", res |-> getConfig]
  /\ UNCHANGED <<config, secrets, nextId, now, initialized, records, sets, trimmed,
                 rotationCallbacks>>

NextConfig ==
  \/ Return
  \/ \E i \in 1..Len(Partials) : SetConfig(i)
  \/ GetConfig

SpecConfig == Init /\ [][NextConfig]_vars

(***************************************************************************)
(* The secret manager driven directly (secrets.js), with its subscribers   *)
(***************************************************************************)
\* secrets handed to setCurrentSecret and addPreviousSecret
StoreCurrent == {SecretA, ShortSecret}
StoreAdded == {SecretB}

\* previousSecrets handed to initialize
StorePrevious == {<<>>, <<SecretA, SecretB>>}

\* the rotation handlers of the callers: one returns, one throws
HandlerLog == Handler("log", FALSE)
HandlerFaulty == Handler("faulty", TRUE)
Handlers == {HandlerLog, HandlerFaulty}

\* Date.now() moves on
Tick ==
  /\ Idle
  /\ now < MaxNow
  /\ now' = now + 1
  /\ UNCHANGED <<config, secrets, nextId, initialized, records, sets, trimmed,
                 rotationCallbacks, last>>

\* secretManager.setCurrentSecret(secret)
SetCurrentSecret(secret) ==
  /\ Idle
  /\ nextId < MaxIds
  /\ IF SecretError(secret) # ""
     THEN /\ last' = [op |-> "setCurrentSecret", threw |-> TRUE,
                      error |-> SecretError(secret)]
          /\ UNCHANGED <<secrets, nextId>>
     ELSE /\ secrets' = setCurrentSecret(secrets, nextId, now, secret)
          /\ nextId' = nextId + 1
          /\ last' = [op |-> "setCurrentSecret", threw |-> FALSE, error |-> ""]
  /\ UNCHANGED <<config, now, initialized, records, sets, trimmed, rotationCallbacks>>

\* secretManager.addPreviousSecret(secret), the identifier left out
AddPreviousSecret(secret) ==
  /\ Idle
  /\ nextId < MaxIds
  /\ IF ~secret.isBytes
     THEN /\ last' = [op |-> "addPreviousSecret", threw |-> TRUE,
                      error |-> "Secret must be a Uint8Array"]
          /\ UNCHANGED <<secrets, nextId>>
     ELSE /\ secrets' = addPreviousSecret(secrets, now, secret,
                                          _generateSecretId(nextId, now))
          /\ nextId' = nextId + 1
          /\ last' = [op |-> "addPreviousSecret", threw |-> FALSE, error |-> ""]
  /\ UNCHANGED <<config, now, initialized, records, sets, trimmed, rotationCallbacks>>

\* secretManager.getAllSecrets()
GetAllSecrets ==
  /\ Idle
  /\ last' = [op |-> "getAllSecrets", res |-> getAllSecrets(secrets)]
  /\ UNCHANGED <<config, secrets, nextId, now, initialized, records, sets, trimmed,
                 rotationCallbacks>>

\* secretManager.onRotation(callback)
OnRotation(callback) ==
  /\ Idle
  /\ rotationCallbacks' = SetAdd(rotationCallbacks, callback)
  /\ last' = [op |-> "onRotation", handler |-> callback]
  /\ UNCHANGED <<config, secrets, nextId, now, initialized, records, sets, trimmed>>

\* the function onRotation(callback) returned, called while callback is in
\* the Set (a call when it is not changes nothing)
Unsubscribe(callback) ==
  /\ Idle
  /\ \E i \in 1..Len(rotationCallbacks) : rotationCallbacks[i] = callback
  /\ rotationCallbacks' = SetDelete(rotationCallbacks, callback)
  /\ last' = [op |-> "unsubscribe", handler |-> callback]
  /\ UNCHANGED <<config, secrets, nextId, now, initialized, records, sets, trimmed>>

\* secretManager.clear()
Clear ==
  /\ Idle
  /\ Len(secrets) > 0
  /\ secrets' = <<>>
  /\ trimmed' = trimmed \cup Held(secrets)
  /\ last' = [op |-> "clear"]
  /\ UNCHANGED <<config, nextId, now, initialized, records, sets, rotationCallbacks>>

NextStore ==
  \/ Return
  \/ Tick
  \/ \E i \in AcceptedPartials : SetConfig(i)
  \/ \E cur \in InitCurrent, prev \in StorePrevious : Initialize(cur, prev)
  \/ \E secret \in StoreCurrent : SetCurrentSecret(secret)
  \/ \E secret \in StoreAdded : AddPreviousSecret(secret)
  \/ \E arg \in RotateInputs : RotateSecret(arg)
  \/ GetAllSecrets
  \/ \E h \in Handlers : OnRotation(h)
  \/ \E h \in Handlers : Unsubscribe(h)
  \/ Clear

SpecStore == Init /\ [][NextStore]_vars

(***************************************************************************)
(* The secret manager used directly next to the hashing entry points       *)
(***************************************************************************)
\* previousSecrets handed to initialize, secrets handed to addPreviousSecret
ManagerPrevious == {<<>>, <<ShortSecret>>}
ManagerAdded == {SecretB, ShortSecret}

\* the identifiers a caller passes to addPreviousSecret: none (<<>>, falsy),
\* 'current', one of its own ('old'), or one the store already uses
ManagerIds(m) == {<<>>, CurrentKey, <<111, 108, 100>>} \cup {m[i].key : i \in 1..Len(m)}

\* secretManager.addPreviousSecret(secret, id)
AddPreviousSecretAs(secret, id) ==
  LET secretId == IF id = <<>> THEN _generateSecretId(nextId, now) ELSE id
  IN /\ Idle
     /\ id = <<>> => nextId < MaxIds
     /\ IF ~secret.isBytes
        THEN /\ last' = [op |-> "addPreviousSecret", threw |-> TRUE,
                         error |-> "Secret must be a Uint8Array", id |-> id]
             /\ UNCHANGED <<secrets, nextId>>
        ELSE /\ secrets' = addPreviousSecret(secrets, now, secret, secretId)
             /\ nextId' = IF id = <<>> THEN nextId + 1 ELSE nextId
             /\ last' = [op |-> "addPreviousSecret", threw |-> FALSE, error |-> "",
                         id |-> id]
     /\ UNCHANGED <<config, now, initialized, records, sets, trimmed, rotationCallbacks>>

NextManager ==
  \/ Return
  \/ \E cur \in InitCurrent, prev \in ManagerPrevious : Initialize(cur, prev)
  \/ \E secret \in StoreCurrent : SetCurrentSecret(secret)
  \/ \E secret \in ManagerAdded, id \in ManagerIds(secrets) : AddPreviousSecretAs(secret, id)
  \/ \E tag \in SaltTags : CreateHash(PwGood, STR_pbkdf2, NoPepper, Undef, tag)
  \/ \E tag \in SaltTags : CreateHashSync(PwGood, STR_pbkdf2, NoPepper, Undef, tag)

SpecManager == Init /\ [][NextManager]_vars

(***************************************************************************)
(* Encoder round trips: a record is drawn, encoded, and the text decoded   *)
(***************************************************************************)
\* byte buffers with varied content
Bytes(tag, n) == [i \in 1..n |-> (i * 37 + tag) % 256]

CodecVersions == {0, 1, 2, 999, 1000}
CodecAlgorithms == {STR_argon2id, STR_pbkdf2, STR_hmac_sha512, STR_md5}
CodecBuffers == {<<Bytes(200, 15), Bytes(3, 32)>>, <<Bytes(200, 16), Bytes(3, 32)>>,
                 <<Bytes(77, 17), Bytes(5, 31)>>, <<Bytes(77, 32), Bytes(255, 64)>>,
                 <<Bytes(0, 18), Bytes(9, 33)>>}
\* <<iterations, timeCost, memoryCost, parallelism>>
CodecCosts == {<<1000, 1, 4096, 1>>, <<1000000, 10, 1048576, 16>>, <<210000, 3, 65536, 4>>,
               <<999, 0, 4095, 0>>, <<1000001, 11, 1048577, 17>>}

CodecRecords ==
  {Metadata(v, a, b[1], b[2],
            IF a = STR_argon2id THEN Undef ELSE c[1],
            IF a = STR_argon2id THEN c[2] ELSE Undef,
            IF a = STR_argon2id THEN c[3] ELSE Undef,
            IF a = STR_argon2id THEN c[4] ELSE Undef) :
     v \in CodecVersions, a \in CodecAlgorithms, b \in CodecBuffers, c \in CodecCosts}

\* one well-formed record of each algorithm
CodecGood ==
  {Metadata(2, a, Bytes(77, 16), Bytes(5, 32),
            IF a = STR_argon2id THEN Undef ELSE 210000,
            IF a = STR_argon2id THEN 3 ELSE Undef,
            IF a = STR_argon2id THEN 65536 ELSE Undef,
            IF a = STR_argon2id THEN 4 ELSE Undef) : a \in getSupportedAlgorithms}

\* first fields that are not the literal 'hmax': xmax, HMAX, hmax followed
\* by a space, the empty string
BadPrefixes == {<<120, 109, 97, 120>>, <<72, 77, 65, 88>>, <<104, 109, 97, 120, 32>>, <<>>}

\* the fields of a text with one of them replaced, one added or some dropped;
\* the replacements include a version of 0, 1000 and 'x', a salt of 15 bytes,
\* a first cost of 0 and a hash of 31 bytes
Mutilations(parts) ==
  {parts}
  \cup {[parts EXCEPT ![1] = x] : x \in BadPrefixes}
  \cup {[parts EXCEPT ![3] = a] : a \in getSupportedAlgorithms \cup {STR_md5, <<>>}}
  \cup {Append(parts, <<>>), Append(parts, parts[Len(parts)]),
        Append(Append(parts, parts[5]), parts[Len(parts)])}
  \cup {SubSeq(parts, 1, n) : n \in {1, 2, 5, Len(parts) - 1}}
  \cup {[parts EXCEPT ![2] = v] : v \in {<<48>>, <<49, 48, 48, 48>>, <<120>>}}
  \cup {[parts EXCEPT ![4] = _encodeComponent(Bytes(200, 15))],
        [parts EXCEPT ![5] = <<48>>],
        [parts EXCEPT ![Len(parts)] = _encodeComponent(Bytes(3, 31))]}

\* the texts handed to decodeHash
CodecTexts ==
  {<<>>} \cup {Join(p) : p \in UNION {Mutilations(Split(encodeHash(r).value)) : r \in CodecGood}}

InitCodec ==
  /\ config = DEFAULT_CONFIG
  /\ secrets = <<>>
  /\ nextId = 0
  /\ now = 0
  /\ initialized = FALSE
  /\ records = {}
  /\ sets = 0
  /\ trimmed = {}
  /\ rotationCallbacks = <<>>
  /\ \/ \E r \in CodecRecords : last = [op |-> "record", rec |-> r]
     \/ \E t \in CodecTexts : last = [op |-> "text", text |-> t]

\* encoder.encodeHash(record)
EncodeRecord ==
  /\ last.op = "record"
  /\ last' = [op |-> "encodeHash", rec |-> last.rec, res |-> encodeHash(last.rec)]
  /\ UNCHANGED <<config, secrets, nextId, now, initialized, records, sets, trimmed,
               rotationCallbacks>>

\* encoder.decodeHash(text) on the text just encoded
DecodeText ==
  /\ last.op = "encodeHash"
  /\ ~last.res.threw
  /\ last' = [op |-> "decodeHash", rec |-> last.rec, text |-> last.res.value,
              res |-> decodeHash(last.res.value)]
  /\ UNCHANGED <<config, secrets, nextId, now, initialized, records, sets, trimmed,
               rotationCallbacks>>

\* encoder.decodeHash(text) on a text the caller brings
DecodeGiven ==
  /\ last.op = "text"
  /\ last' = [op |-> "decodeGiven", text |-> last.text, res |-> decodeHash(last.text)]
  /\ UNCHANGED <<config, secrets, nextId, now, initialized, records, sets, trimmed,
               rotationCallbacks>>

\* configurations handed to needsMigration: the default one and one with
\* each cost or the format version raised
CodecConfigs ==
  {DEFAULT_CONFIG,
   [DEFAULT_CONFIG EXCEPT !.pbkdf2.iterations = 300000],
   [DEFAULT_CONFIG EXCEPT !.argon2.timeCost = 4],
   [DEFAULT_CONFIG EXCEPT !.argon2.memoryCost = 131072],
   [DEFAULT_CONFIG EXCEPT !.argon2.parallelism = 8],
   [DEFAULT_CONFIG EXCEPT !.encoding.formatVersion = 3]}

\* encoder.needsMigration(text) and encoder.needsMigration(text, cfg) on a
\* text the caller brings or on the text just encoded
NeedsMigrationGiven ==
  /\ last.op = "text" \/ (last.op = "encodeHash" /\ ~last.res.threw)
  /\ \E currentConfig \in {<<>>} \cup {<<cfg>> : cfg \in CodecConfigs} :
       \E text \in {IF last.op = "text" THEN last.text ELSE last.res.value} :
         last' = [op |-> "needsMigration", text |-> text, currentConfig |-> currentConfig,
                  res |-> needsMigration(text, currentConfig)]
  /\ UNCHANGED <<config, secrets, nextId, now, initialized, records, sets, trimmed,
                 rotationCallbacks>>

\* encoder.encodeHash(decoded) on the record decodeHash returned for a text
\* the caller brought
EncodeDecoded ==
  /\ last.op = "decodeGiven"
  /\ ~last.res.threw
  /\ last' = [op |-> "encodeDecoded", text |-> last.text, rec |-> last.res.value,
              res |-> encodeHash(last.res.value)]
  /\ UNCHANGED <<config, secrets, nextId, now, initialized, records, sets, trimmed,
                 rotationCallbacks>>

NextCodec ==
  EncodeRecord \/ DecodeText \/ DecodeGiven \/ NeedsMigrationGiven \/ EncodeDecoded

SpecCodec == InitCodec /\ [][NextCodec]_vars

(***************************************************************************)
(* Argon2 derivation: parameters and two sealed inputs are drawn, the key  *)
(* is derived from each                                                    *)
(***************************************************************************)
\* values of memoryCost, timeCost, parallelism and keyLength, the limits of
\* _validateParams and their neighbours among them
ArgonMemoryCosts == {2048, 4096, 8192, 65536, 262144, 524288, 1048576}
ArgonTimeCosts == {0, 1, 3, 10, 11}
ArgonParallelisms == {0, 1, 2, 4, 5, 16, 17}
ArgonKeyLengths == {15, 16, 64, 128, 129}

\* the HMAC layer's output for two different passwords under one secret
ArgonSealed(password) ==
  createHMAC(setCurrentSecret(<<>>, 0, 0, SecretA), password, randomBytes(7, 32),
             NoPepper).value

InitArgon ==
  /\ config = DEFAULT_CONFIG
  /\ secrets = <<>>
  /\ nextId = 0
  /\ now = 0
  /\ initialized = FALSE
  /\ records = {}
  /\ sets = 0
  /\ trimmed = {}
  /\ rotationCallbacks = <<>>
  /\ \E mc \in ArgonMemoryCosts, tc \in ArgonTimeCosts, par \in ArgonParallelisms,
        kl \in ArgonKeyLengths :
       last = [op |-> "argonInput",
               options |-> [memoryCost |-> mc, timeCost |-> tc, parallelism |-> par,
                            keyLength |-> kl]]

\* argon2.deriveKey(password, salt, options) for each of the two sealed
\* inputs, with the same salt and options
ArgonDeriveKey ==
  /\ last.op = "argonInput"
  /\ last' = [op |-> "deriveKey", options |-> last.options,
              first |-> Argon2_deriveKey(ArgonSealed(PwGood), randomBytes(7, 32),
                                         last.options),
              second |-> Argon2_deriveKey(ArgonSealed(PwWrong), randomBytes(7, 32),
                                          last.options)]
  /\ UNCHANGED <<config, secrets, nextId, now, initialized, records, sets, trimmed,
                 rotationCallbacks>>

SpecArgon == InitArgon /\ [][ArgonDeriveKey]_vars

TypeOK ==
  /\ nextId \in 0..(MaxIds + 1)
  /\ now \in 0..MaxNow
  /\ initialized \in BOOLEAN
  /\ Cardinality(records) <= 1

(***************************************************************************)
(* Properties                                                              *)
(***************************************************************************)
\* the last call was made with the password and pepper record r was created with
Matches(r) == last.text = r.text /\ last.password = r.password /\ last.pepper = r.pepper

\* the current secret is the one record r was sealed under
SameCurrent(r) ==
  ~getCurrentSecret(secrets).threw /\ getCurrentSecret(secrets).value = r.sealedWith

\* record r was created at the configured cost, without an override
Plain(r) == r.algorithm # STR_pbkdf2 \/ r.iterations = r.cfgAt.pbkdf2.iterations

\* C1: verifyPassword on a record made by createHash, with the same password
\* and pepper, the current secret and the configuration unchanged, returns
\* verified = true.
C1_SamePasswordVerifies ==
  \A r \in records :
    (last.op = "verifyPassword" /\ Matches(r) /\ SameCurrent(r) /\ config = r.cfgAt)
      => last.res.verified

\* C2: after a successful rotation a record sealed under the secret that was
\* current before still verifies with the right password while that secret
\* is held as a previous secret.
C2_RetainedSecretVerifies ==
  \A r \in records :
    (last.op = "verifyPassword" /\ Matches(r) /\ Plain(r) /\ config = r.cfgAt
     /\ MapHas(secrets, CurrentKey) /\ r.sealedWith \in HeldPrevious(secrets))
      => last.res.verified

\* C3: verifyPassword on a valid record with a password other than the one it
\* was created with returns verified = false and needsMigration = false.
C3_WrongPasswordFails ==
  \A r \in records :
    (last.op = "verifyPassword" /\ last.text = r.text /\ last.password # r.password)
      => (~last.res.verified /\ ~last.res.needsMigration)

C3_Witness ==
  \E r \in records :
    /\ last.op = "verifyPassword" /\ last.text = r.text /\ last.password = PwWrong
    /\ last.pepper = r.pepper /\ SameCurrent(r)
    /\ ~last.res.verified /\ last.res.error = ""

\* C4: once the secret a record was sealed under has been trimmed out of the
\* store, verifyPassword with the right password returns verified = false.
C4_TrimmedSecretFails ==
  \A r \in records :
    (last.op = "verifyPassword" /\ Matches(r)
     /\ r.sealedWith \in trimmed /\ r.sealedWith \notin Held(secrets))
      => ~last.res.verified

C4_Witness ==
  \E r \in records :
    /\ last.op = "verifyPassword" /\ Matches(r)
    /\ r.sealedWith \in trimmed /\ r.sealedWith \notin Held(secrets)
    /\ MapHas(secrets, CurrentKey)
    /\ ~last.res.verified

\* C5: after the configured pbkdf2 iterations are raised by setConfig,
\* verifyPassword with the right password reports needsMigration = true for
\* a record created before the change, and needsMigration = false for a
\* record created after it.
C5_RaisedCostNeedsMigration ==
  \A r \in records :
    (last.op = "verifyPassword" /\ Matches(r) /\ SameCurrent(r) /\ Plain(r)
     /\ r.algorithm = STR_pbkdf2
     /\ config.hmacAlgorithm = r.cfgAt.hmacAlgorithm
     /\ config.pbkdf2.digest = r.cfgAt.pbkdf2.digest
     /\ config.secrets.enablePepper = r.cfgAt.secrets.enablePepper)
      => /\ (r.cfgAt.pbkdf2.iterations < config.pbkdf2.iterations
               => last.res.needsMigration)
         /\ (r.cfgAt = config /\ sets > 0 => ~last.res.needsMigration)

C7_MigrateUnverifiedFails ==
  (last.op = "migrateHashIfOutdated"
   /\ ~verifyPassword(last.password, last.text, last.pepper).verified)
    => /\ last.res.threw
       /\ last.res.error = "Cannot migrate: password verification failed"
       /\ last.before = [secrets |-> secrets, config |-> config, records |-> records]

C7_Witness ==
  /\ last.op = "migrateHashIfOutdated"
  /\ last.password = PwWrong
  /\ last.text \in RecordTexts
  /\ last.res.threw

\* C8: migrateHashIfOutdated with the right password on a record that already
\* meets the current configuration returns {migrated: false, hash: the same
\* text}.
C8_MigrateUpToDate ==
  \A r \in records :
    (last.op = "migrateHashIfOutdated" /\ Matches(r) /\ SameCurrent(r) /\ Plain(r)
     /\ config = r.cfgAt)
      => (~last.res.threw /\ ~last.res.value.migrated /\ last.res.value.hash = r.text)

\* C9: a record created with the iterative strategy at N iterations, N from
\* the configuration or from the options, is a text of 6 fields that decodes
\* to algorithm pbkdf2 and iterations = N.
C9_IterationsRecorded ==
  \A r \in records :
    (last.op \in {"createHash", "createHashSync"} /\ ~last.threw /\ last.text = r.text
     /\ r.algorithm = STR_pbkdf2)
      => /\ Len(Split(r.text)) = 6
         /\ ~decodeHash(r.text).threw
         /\ decodeHash(r.text).value.algorithm = STR_pbkdf2
         /\ decodeHash(r.text).value.iterations = r.iterations

\* the conditions C10 puts on a record
WellFormed(r) ==
  /\ r.version >= 1 /\ r.version <= 999
  /\ r.algorithm \in {STR_argon2id, STR_pbkdf2, STR_hmac_sha512}
  /\ Len(r.salt) >= 16
  /\ Len(r.hash) >= 32
  /\ IF r.algorithm = STR_argon2id
     THEN /\ r.timeCost >= 1 /\ r.timeCost <= 10
          /\ r.memoryCost >= 4096 /\ r.memoryCost <= 1048576
          /\ r.parallelism >= 1 /\ r.parallelism <= 16
     ELSE r.iterations >= 1000 /\ r.iterations <= 1000000

\* C10: for a well-formed record r, encode succeeds and decode(encode(r))
\* equals r in version, algorithm, salt, cost parameters and derived key.
C10_RoundTrip ==
  /\ (last.op = "encodeHash" /\ WellFormed(last.rec)) => ~last.res.threw
  /\ (last.op = "decodeHash" /\ WellFormed(last.rec)) =>
       /\ ~last.res.threw
       /\ last.res.value.version = last.rec.version
       /\ last.res.value.algorithm = last.rec.algorithm
       /\ last.res.value.salt = last.rec.salt
       /\ last.res.value.hash = last.rec.hash
       /\ last.res.value.iterations = last.rec.iterations
       /\ last.res.value.timeCost = last.rec.timeCost
       /\ last.res.value.memoryCost = last.rec.memoryCost
       /\ last.res.value.parallelism = last.rec.parallelism

C10_Witness ==
  /\ last.op = "decodeHash"
  /\ WellFormed(last.rec)
  /\ last.rec.algorithm = STR_argon2id
  /\ last.rec.timeCost # last.rec.memoryCost
  /\ ~last.res.threw

\* the i-th '$'-separated field of a text is v
FieldIs(text, i, v) == i <= Len(Split(text)) /\ Split(text)[i] = v

\* the number of fields decode requires for the algorithm named in a text
FieldsRequired(text) == IF FieldIs(text, 3, STR_argon2id) THEN 8 ELSE 6

\* C11: decode fails with an error and returns no record for every text
\* whose first field is not 'hmax', whose algorithm is not argon2id, pbkdf2
\* or hmac-sha512, or whose number of fields is not 8 for argon2id and 6 for
\* the other two
C11_DecodeRejects ==
  (/\ last.op = "decodeGiven"
   /\ \/ ~FieldIs(last.text, 1, STR_hmax)
      \/ ~\E a \in getSupportedAlgorithms : FieldIs(last.text, 3, a)
      \/ Len(Split(last.text)) # FieldsRequired(last.text))
  => (last.res.threw /\ last.res.error # "" /\ last.res.value = {})

\* decode was handed a pbkdf2 text with a seventh field and refused it
C11_Witness ==
  /\ last.op = "decodeGiven"
  /\ last.res.threw
  /\ FieldIs(last.text, 1, STR_hmax)
  /\ FieldIs(last.text, 3, STR_pbkdf2)
  /\ Len(Split(last.text)) = 7

\* a configuration with a field outside its range
OutOfRange(c) ==
  \/ c.saltLength < 16 \/ c.saltLength > 64
  \/ c.hmacAlgorithm \notin {"sha256", "sha384", "sha512"}
  \/ c.pbkdf2.digest \notin {"sha256", "sha384", "sha512"}
  \/ c.argon2.memoryCost < 4096 \/ c.argon2.memoryCost > 1048576
  \/ c.argon2.timeCost < 1 \/ c.argon2.timeCost > 10
  \/ c.argon2.parallelism < 1 \/ c.argon2.parallelism > 16
  \/ c.pbkdf2.iterations < 10000 \/ c.pbkdf2.iterations > 1000000

\* C12: a setConfig whose merged configuration has an out-of-range field
\* throws an error, and getConfig afterwards returns what it returned before
C12_SetConfigRejects ==
  [][\A i \in 1..Len(Partials) :
       (/\ Idle
        /\ last'.op = "setConfig"
        /\ last'.partial = i
        /\ OutOfRange(_deepMerge(config, Partials[i])))
       => (last'.threw /\ last'.error # "" /\ config' = config)]_vars

\* setConfig refused a salt length of 65 on a configuration that was
\* changed before
C12_Witness ==
  /\ last.op = "setConfig"
  /\ last.threw
  /\ sets > 0
  /\ "saltLength" \in DOMAIN Partials[last.partial]
  /\ Partials[last.partial].saltLength = 65
  /\ OutOfRange(_deepMerge(config, Partials[last.partial]))

\* the entries of the Map m other than the current one, in Map order
PreviousEntries(m) == SelectSeq(m, LAMBDA e : e.key # CurrentKey)

\* the sequence list is the secrets of the entries es, no entry before a
\* newer one
NewestFirst(list, es) ==
  /\ Len(list) = Len(es)
  /\ \E p \in Permutations(1..Len(es)) :
       /\ \A i \in 1..Len(es) : list[i] = es[p[i]].secret
       /\ \A i, j \in 1..Len(es) : i < j => es[p[i]].timestamp >= es[p[j]].timestamp

\* C13: while a current secret exists, getAllSecrets returns the current
\* secret first and after it the previous secrets, newest first
C13_CurrentFirstNewestFirst ==
  (last.op = "getAllSecrets" /\ MapHas(secrets, CurrentKey))
  => /\ Len(last.res) > 0
     /\ last.res[1] = secrets[KeyIndex(secrets, CurrentKey)].secret
     /\ NewestFirst(Tail(last.res), PreviousEntries(secrets))

\* C14: after initialize, setCurrentSecret, addPreviousSecret or rotateSecret
\* the store holds no more previous secrets than secrets.maxPreviousSecrets
C14_PreviousWithinMax ==
  last.op \in {"initialize", "setCurrentSecret", "addPreviousSecret", "rotateSecret"}
  => Len(PreviousEntries(secrets)) <= getConfig.secrets.maxPreviousSecrets

\* C15: a rotateSecret that throws leaves the Map as it was and invokes no
\* rotation handler
C15_FailedRotateNoChange ==
  [][(Idle /\ last'.op = "rotateSecret" /\ last'.threw)
     => (secrets' = secrets /\ last'.calls = <<>>)]_vars

\* a Map from which rotateSecrets has archived the current secret without
\* installing a new one (no other operation of Spec adds a previous secret)
Torn(m) == ~MapHas(m, CurrentKey) /\ Len(PreviousEntries(m)) > 0

\* C16: createHash and verifyPassword find the Map as it was before a
\* rotation or as it is after it, never with the current secret archived
\* and none installed
C16_NoTornStore ==
  last.op \in {"createHash", "verifyPassword"} => ~Torn(secrets)

\* the handlers in the Set
Subscribed == {rotationCallbacks[i] : i \in 1..Len(rotationCallbacks)}

\* C17: a rotateSecret that returns invokes every subscribed handler exactly
\* once, with the new and the old identifier, after the new current secret
\* is installed and the previous ones trimmed; a handler that throws stops
\* neither the other handlers nor the rotation
C17_HandlersNotified ==
  [][(Idle /\ last'.op = "rotateSecret" /\ ~last'.threw)
     => LET old == secrets[KeyIndex(secrets, CurrentKey)]
            new == secrets'[KeyIndex(secrets', CurrentKey)]
            calls == last'.calls
        IN /\ MapHas(secrets', CurrentKey)
           /\ new.id # old.id
           /\ old.secret \in HeldPrevious(secrets') \cup trimmed'
           /\ Len(PreviousEntries(secrets')) <= getConfig.secrets.maxPreviousSecrets
           /\ \A h \in Subscribed :
                Cardinality({i \in 1..Len(calls) : calls[i].handler = h}) = 1
           /\ \A i \in 1..Len(calls) :
                /\ calls[i].handler \in Subscribed
                /\ calls[i].newId = new.id
                /\ calls[i].oldId = old.id
                /\ calls[i].saw = secrets']_vars

\* a rotation returned with the faulty handler subscribed before the other
\* one: the faulty one threw and the other one was still invoked
C17_Witness ==
  /\ last.op = "rotateSecret"
  /\ ~last.threw
  /\ Len(last.calls) = 2
  /\ last.calls[1].threw
  /\ ~last.calls[2].threw
  /\ MapHas(secrets, CurrentKey)

\* C18: once initialize has returned, getCurrentSecret succeeds
C18_CurrentAfterInitialize ==
  initialized => ~getCurrentSecret(secrets).threw

\* C19: auditHash reports secure false with an issue when the record's
\* iterations (pbkdf2) or its timeCost, memoryCost or parallelism (argon2id)
\* is below the configured value
C19_AuditFlagsLowCost ==
  (/\ last.op = "auditHash"
   /\ ~decodeHash(last.text).threw
   /\ LET m == decodeHash(last.text).value
      IN \/ m.algorithm = STR_pbkdf2 /\ Lt(m.iterations, getConfig.pbkdf2.iterations)
         \/ /\ m.algorithm = STR_argon2id
            /\ \/ Lt(m.timeCost, getConfig.argon2.timeCost)
               \/ Lt(m.memoryCost, getConfig.argon2.memoryCost)
               \/ Lt(m.parallelism, getConfig.argon2.parallelism))
  => (~last.res.secure /\ Len(last.res.issues) > 0)

\* a buffer whose bytes are all zero
ZeroFilled(secret) == secret.tag = 0

\* C20: a secret that has left the store, trimmed by a rotation or removed
\* by clear, is zero-filled, and after clear the store holds no secret
C20_LeftSecretsZeroed ==
  /\ \A secret \in trimmed : ZeroFilled(secret)
  /\ last.op = "clear" => Len(secrets) = 0

\* C21: the synchronous entry points refuse argon2id: createHashSync throws
\* and returns no text, argon2 deriveKeySync throws and returns no key, and
\* verifyPasswordSync on an argon2id record returns verified = false with
\* an error
C21_SyncRefusesArgon2 ==
  /\ (last.op = "createHashSync" /\ last.algorithm = STR_argon2id)
     => (last.threw /\ last.error # "" /\ last.text = <<>>)
  /\ last.op = "deriveKeySync" => (last.res.threw /\ last.res.value = {})
  /\ (last.op = "verifyPasswordSync" /\ FieldIs(last.text, 3, STR_argon2id))
     => (~last.res.verified /\ last.res.error # "")

\* verifyPasswordSync was given an argon2id record made by createHash, with
\* its password and pepper, under the secret that sealed it, and refused it
C21_Witness ==
  \E r \in records :
    /\ last.op = "verifyPasswordSync"
    /\ r.algorithm = STR_argon2id
    /\ Matches(r)
    /\ SameCurrent(r)
    /\ last.res.error = "Argon2 verification must be async"

\* the record m is out of date under the configuration cfg
OutOfDate(m, cfg) ==
  \/ Lt(m.version, cfg.encoding.formatVersion)
  \/ /\ m.algorithm = STR_argon2id
     /\ \/ Lt(m.timeCost, cfg.argon2.timeCost)
        \/ Lt(m.memoryCost, cfg.argon2.memoryCost)
        \/ Lt(m.parallelism, cfg.argon2.parallelism)
  \/ m.algorithm = STR_pbkdf2 /\ Lt(m.iterations, cfg.pbkdf2.iterations)

\* C22: on a decodable text needsMigration returns true exactly when the
\* version is below the format version, or an argon2id cost or the pbkdf2
\* iterations are below the configured value, under the configuration
\* passed or else the stored one
C22_NeedsMigrationExact ==
  (last.op = "needsMigration" /\ ~decodeHash(last.text).threw)
  => /\ ~last.res.threw
     /\ last.res.value =
          OutOfDate(decodeHash(last.text).value,
                    IF Len(last.currentConfig) = 0 THEN getConfig ELSE last.currentConfig[1])

\* the generated identifiers of the entries es
GeneratedIds(es) == {es[i].id : i \in {j \in 1..Len(es) : Len(es[j].id) = 2}}

\* the clock reading at which the secret with the generated identifier id
\* entered the store
CreatedAt(id) == id[1]

\* C23: when a rotation trims the previous secrets, no secret it retains as
\* a previous one was created earlier than one it discards
C23_TrimDiscardsOldest ==
  [][(Idle /\ last'.op = "rotateSecret" /\ ~last'.threw)
     => LET kept == GeneratedIds(PreviousEntries(secrets'))
            gone == GeneratedIds(secrets) \ kept
        IN \A k \in kept, g \in gone : ~(CreatedAt(k) < CreatedAt(g))]_vars

\* C24: every secret the store holds, current or previous, has at least 32
\* bytes
C24_HeldSecretsLongEnough ==
  \A i \in 1..Len(secrets) : secrets[i].secret.isBytes /\ secrets[i].secret.len >= 32

\* C28: addPreviousSecret(secret, id) leaves the current secret as it was and
\* every secret the store held stays under its key, whatever id is
C28_AddPreviousKeepsOthers ==
  [][(Idle /\ last'.op = "addPreviousSecret")
     => /\ MapHas(secrets, CurrentKey)
             => getCurrentSecret(secrets') = getCurrentSecret(secrets)
        /\ \A i \in 1..Len(secrets) :
             /\ MapHas(secrets', secrets[i].key)
             /\ secrets'[KeyIndex(secrets', secrets[i].key)].secret = secrets[i].secret]_vars

\* C29: createHash and createHashSync leave the store as it was when a
\* current secret is present, and seal the record with that secret
C29_CreateHashKeepsStore ==
  [][(Idle /\ last'.op \in {"createHash", "createHashSync"} /\ MapHas(secrets, CurrentKey))
     => /\ secrets' = secrets
        /\ ~last'.threw
             => \A r \in records' : r.sealedWith = getCurrentSecret(secrets).value]_vars

\* the options o pass _validateParams
ArgonInRange(o) ==
  /\ o.memoryCost >= 4096 /\ o.memoryCost <= 1048576
  /\ o.timeCost >= 1 /\ o.timeCost <= 10
  /\ o.parallelism >= 1 /\ o.parallelism <= 16
  /\ o.keyLength >= 16 /\ o.keyLength <= 128

\* C25: the keys argon2 derives from two different sealed inputs, with the
\* same salt and parameters, differ
C25_KeyDependsOnInput ==
  (last.op = "deriveKey" /\ ~last.first.threw /\ ~last.second.threw)
  => last.first.value # last.second.value

\* C26: for parameters inside the validated ranges argon2 deriveKey returns
\* a key of the requested length
C26_InRangeDerives ==
  (last.op = "deriveKey" /\ ArgonInRange(last.options))
  => (~last.first.threw /\ Len(last.first.value) = last.options.keyLength)

\* C27: the configuration getConfig returns, the initial one included,
\* passes _validateConfig, and a setConfig whose fields are all inside their
\* ranges (or that sets no field) does not throw
C27_StoredConfigValid ==
  /\ last.op = "getConfig" => _validateConfig(last.res) = ""
  /\ (last.op = "setConfig" /\ ~OutOfRange(_deepMerge(DEFAULT_CONFIG, Partials[last.partial])))
     => ~last.threw

\* C30: a record decodeHash returned passes _validateMetadata and encodeHash
\* of it returns a text
C30_DecodedEncodes ==
  last.op = "encodeDecoded"
  => (_validateMetadata(last.rec) = "" /\ ~last.res.threw)

====
